---- MODULE Spec2Model ----
(***************************************************************************)
(* Pythia insight generation: the InsightService orchestrator              *)
(* (app/services/insight_service.py), the feature extractor, the request   *)
(* schema and the Celery batch task, as a state machine.                   *)
(*                                                                         *)
(* Numbers.  Metric values are floats in the program; the model draws them *)
(* from the integers.  change_percent is carried in hundredths of a        *)
(* percent (the program rounds it to two decimals), confidence and         *)
(* temperature in hundredths.                                              *)
(***************************************************************************)
EXTENDS Integers, Sequences, FiniteSets, TLC

(* ----------------------------- bounds --------------------------------- *)

\* settings.llm_max_retries ranges over 0..MaxRetries
MaxRetries == 3

\* longest requests_data list handed to batch_generate_insights
MaxBatch == 2

\* longest values list handed to extract_from_metrics on its own
MaxLen == 3

\* longest values list handed to a detector on its own
MaxSeries == 5

\* rolling_std_detection is called with window in 1..MaxWindow
MaxWindow == 2

(* ------------------------- program constants --------------------------- *)

\* round(change_percent, 2): two decimals, so hundredths
Scale == 100

\* confidence=0.60 of the rule-based insight, in hundredths
FallbackConfidence == 60

\* temperature=0.7 passed to llm_client.generate, in hundredths
Temperature == 70

\* the capped percent change when previous_value == 0
CapPercent == 1000

Severities == {"critical", "high", "medium", "low"}

InputTypes == {"metrics", "text", "timeseries"}

(* ------------------------------ helpers -------------------------------- *)

Abs(x) == IF x < 0 THEN -x ELSE x

Last(s) == s[Len(s)]

\* Python round(): nearest, ties to even, of the rational a / b (b # 0)
RoundDiv(a, b) ==
    LET n == IF b < 0 THEN -a ELSE a
        d == Abs(b)
        q == n \div d
        r == n % d
    IN  IF 2 * r < d THEN q
        ELSE IF 2 * r > d THEN q + 1
        ELSE IF q % 2 = 0 THEN q ELSE q + 1

(* ------------------------------ settings ------------------------------- *)

\* Settings() with the fields the services read, as the environment or
\* the .env file sets them
SettingsWith(retries, critical, high, medium) ==
    [ llm_max_retries             |-> retries,
      severity_threshold_critical |-> critical,
      severity_threshold_high     |-> high,
      severity_threshold_medium   |-> medium ]

\* Settings(): the defaults of app/config.py, llm_max_retries configurable
Settings(retries) == SettingsWith(retries, 50, 25, 10)

(* --------------------------- request schema ---------------------------- *)

\* a thresholds dict: the tier names it holds (keys) and their values
Thresholds(keys, critical, high, medium) ==
    [ keys |-> keys, critical |-> critical, high |-> high, medium |-> medium ]

\* ContextConfig: absent (request.context is None), or with thresholds
\* None (has_thresholds = FALSE) or a dict
ContextConfig(present, has_thresholds, thresholds) ==
    [ present |-> present, has_thresholds |-> has_thresholds,
      thresholds |-> thresholds ]

NoContext == ContextConfig(FALSE, FALSE, Thresholds({}, 0, 0, 0))

\* request.data after MetricsData / TextData / TimeSeriesData .dict();
\* a key the dict does not hold is the empty string / empty sequence
MetricsData(name, vals) ==
    [ metric_name |-> name, values |-> vals, content |-> "",
      series_name |-> "", data_points |-> 0 ]

TextData(text) ==
    [ metric_name |-> "", values |-> << >>, content |-> text,
      series_name |-> "", data_points |-> 0 ]

TimeSeriesData(name, n) ==
    [ metric_name |-> "", values |-> << >>, content |-> "",
      series_name |-> name, data_points |-> n ]

InsightRequest(uid, tid, type, d, ctx) ==
    [ user_id |-> uid, tenant_id |-> tid, input_type |-> type,
      data |-> d, context |-> ctx ]

\* validate_data_format and the field constraints of the request models:
\* does InsightRequest(**request_data) construct, or raise ValidationError
MetricsDataValid(d) == d.metric_name # "" /\ Len(d.values) >= 2

TextDataValid(d) == d.content # ""

TimeSeriesDataValid(d) == d.series_name # "" /\ d.data_points >= 2

InsightRequestValid(r) ==
    /\ r.user_id # ""
    /\ r.tenant_id # ""
    /\ r.input_type \in InputTypes
    /\ CASE r.input_type = "metrics"    -> MetricsDataValid(r.data)
         [] r.input_type = "text"       -> TextDataValid(r.data)
         [] r.input_type = "timeseries" -> TimeSeriesDataValid(r.data)

(* ------------------------- feature extraction -------------------------- *)

FeatureSet(prev, cur, ca, cp, sev) ==
    [ previous_value |-> prev, current_value |-> cur,
      change_absolute |-> ca, change_percent |-> cp, severity |-> sev ]

\* the FeatureSet the outer guard builds when none was extracted
ZeroFeatures == FeatureSet(0, 0, 0, 0, "low")

\* thresholds.get(tier, default)
ThresholdGet(thresholds, tier, default) ==
    IF tier \in thresholds.keys THEN thresholds[tier] ELSE default

\* the thresholds dict extract_from_metrics classifies against
ThresholdsInForce(settings, context) ==
    IF context.present /\ context.has_thresholds
    THEN [ critical |-> ThresholdGet(context.thresholds, "critical", 50),
           high     |-> ThresholdGet(context.thresholds, "high", 25),
           medium   |-> ThresholdGet(context.thresholds, "medium", 10) ]
    ELSE [ critical |-> settings.severity_threshold_critical,
           high     |-> settings.severity_threshold_high,
           medium   |-> settings.severity_threshold_medium ]

\* mutant: the boundaries are exclusive
AbsAtLeast_Strict(num, den, t) == Abs(num) > t * Abs(den)

\* abs(change_percent) >= t for the unrounded change_percent = num / den
AbsAtLeast(num, den, t) == Abs(num) >= t * Abs(den)

\* mutant: the cap has no sign
ZeroPreviousPercent_Unsigned(current_value) ==
    IF current_value = 0 THEN 0 ELSE CapPercent

\* change_percent when previous_value == 0 (lines 23-28)
ZeroPreviousPercent(current_value) ==
    IF current_value = 0 THEN 0
    ELSE IF current_value > 0 THEN CapPercent ELSE -CapPercent

\* the local change_percent (lines 23-30), before any rounding, as the
\* rational num / den
change_percent(previous_value, current_value) ==
    IF previous_value = 0
    THEN [ num |-> ZeroPreviousPercent(current_value), den |-> 1 ]
    ELSE [ num |-> (current_value - previous_value) * 100, den |-> previous_value ]

\* mutant: three separate if statements, each overwriting severity, so the
\* last test that succeeds wins
Severity_LastWins(num, den, th) ==
    IF AbsAtLeast(num, den, th.medium) THEN "medium"
    ELSE IF AbsAtLeast(num, den, th.high) THEN "high"
    ELSE IF AbsAtLeast(num, den, th.critical) THEN "critical"
    ELSE "low"

\* the if / elif chain of lines 41-48 on abs(change_percent), for
\* change_percent = num / den
Severity(num, den, th) ==
    IF AbsAtLeast(num, den, th.critical) THEN "critical"
    ELSE IF AbsAtLeast(num, den, th.high) THEN "high"
    ELSE IF AbsAtLeast(num, den, th.medium) THEN "medium"
    ELSE "low"

\* FeatureExtractor.extract_from_metrics, for len(values) >= 2
extract_from_metrics(settings, values, context) ==
    LET previous_value  == values[Len(values) - 1]
        current_value   == values[Len(values)]
        change_absolute == current_value - previous_value
        cp == change_percent(previous_value, current_value)
        th == ThresholdsInForce(settings, context)
    IN  FeatureSet(previous_value, current_value, change_absolute,
                   RoundDiv(cp.num * Scale, cp.den),
                   Severity(cp.num, cp.den, th))

(* --------------------------- anomaly detection ------------------------- *)

Sum(s) ==
    LET RECURSIVE SumTo(_)
        SumTo(i) == IF i = 0 THEN 0 ELSE s[i] + SumTo(i - 1)
    IN  SumTo(Len(s))

\* sum over i of (n * values[i] - total)^2 = n^3 * variance
SquaredDeviations(values) ==
    LET n == Len(values)
        total == Sum(values)
    IN  Sum([ i \in 1..n |-> (n * values[i] - total) * (n * values[i] - total) ])

Sign(x) == IF x > 0 THEN 1 ELSE IF x < 0 THEN -1 ELSE 0

\* a z_score, exactly: sign * sqrt(sq_num / sq_den), with one form for 0
ZScore(sign, sq_num, sq_den) ==
    IF sq_num = 0 THEN [ sign |-> 0, sq_num |-> 0, sq_den |-> 1 ]
    ELSE [ sign |-> sign, sq_num |-> sq_num, sq_den |-> sq_den ]

ZeroScore == ZScore(0, 0, 1)

\* AnomalyResult; diagnostic is the key of details that explains the
\* result: "error", "note" or "interpretation"
AnomalyResult(is_anomaly, z_score, method, diagnostic) ==
    [ present |-> TRUE, is_anomaly |-> is_anomaly, z_score |-> z_score,
      method |-> method, diagnostic |-> diagnostic ]

\* anomaly_result = None
NoAnomaly ==
    [ present |-> FALSE, is_anomaly |-> FALSE, z_score |-> ZeroScore,
      method |-> "", diagnostic |-> "" ]

\* AnomalyDetector.z_score_detection(values), threshold 3.0: with n values,
\* total their sum and D = SquaredDeviations, std = 0 iff D = 0,
\* z_score^2 = n * (n * last - total)^2 / D and
\* |z_score| > 3 iff n * (n * last - total)^2 > 9 * D
z_score_detection(values) ==
    LET n == Len(values)
        total == Sum(values)
        dev == n * Last(values) - total
        D == SquaredDeviations(values)
    IN  IF n < 3
        THEN AnomalyResult(FALSE, ZeroScore, "z_score", "error")
        ELSE IF D = 0
        THEN AnomalyResult(FALSE, ZeroScore, "z_score", "note")
        ELSE AnomalyResult(n * dev * dev > 9 * D,
                           ZScore(Sign(dev), n * dev * dev, D),
                           "z_score", "interpretation")

\* AnomalyDetector.rolling_std_detection(values, window), threshold 2.0:
\* the window is the `window` values before the last one
rolling_std_detection(values, window) ==
    LET n == Len(values)
        rolling_window == SubSeq(values, n - window, n - 1)
        total == Sum(rolling_window)
        dev == window * Last(values) - total
        D == SquaredDeviations(rolling_window)
    IN  IF n < window + 1
        THEN AnomalyResult(FALSE, ZeroScore, "rolling_std", "error")
        ELSE IF D = 0
        THEN AnomalyResult(FALSE, ZeroScore, "rolling_std", "note")
        ELSE AnomalyResult(window * dev * dev > 4 * D,
                           ZScore(1, window * dev * dev, D),
                           "rolling_std", "interpretation")

\* 4 * np.percentile(arr, q) for q = 25 (quarter = 1) and q = 75
\* (quarter = 3): linear interpolation at position quarter * (n - 1) / 4 of
\* the sorted values
Percentile4(sorted, quarter) ==
    LET pos4 == quarter * (Len(sorted) - 1)
        lo == (pos4 \div 4) + 1
        r == pos4 % 4
    IN  IF r = 0 THEN 4 * sorted[lo]
        ELSE 4 * sorted[lo] + r * (sorted[lo + 1] - sorted[lo])

\* 2 * np.median(arr)
Median2(sorted) ==
    LET n == Len(sorted)
    IN  IF n % 2 = 1 THEN 2 * sorted[(n + 1) \div 2]
        ELSE sorted[n \div 2] + sorted[(n \div 2) + 1]

\* AnomalyDetector.iqr_detection(values), multiplier 1.5: bounds compared
\* in eighths, z_equiv = |current - median| / (iqr / 1.35) if iqr > 0 else 0
iqr_detection(values) ==
    LET sorted == SortSeq(values, LAMBDA x, y : x < y)
        q1 == Percentile4(sorted, 1)
        q3 == Percentile4(sorted, 3)
        iqr == q3 - q1
        lower_bound == 2 * q1 - 3 * iqr
        upper_bound == 2 * q3 + 3 * iqr
        current_value == Last(values)
        off == 27 * Abs(2 * current_value - Median2(sorted))
    IN  IF Len(values) < 4
        THEN AnomalyResult(FALSE, ZeroScore, "iqr", "error")
        ELSE AnomalyResult(
                 8 * current_value < lower_bound \/ 8 * current_value > upper_bound,
                 IF iqr > 0 THEN ZScore(1, off * off, (10 * iqr) * (10 * iqr))
                 ELSE ZeroScore,
                 "iqr", "interpretation")

(* ------------------------------- prompt -------------------------------- *)

\* PromptBuilder.build_insight_prompt: the rendered template is determined
\* by the metric name, the features and the anomaly section; notes are the
\* texts _call_llm_with_retry appends to it
build_insight_prompt(metric_name, features, anomaly_result) ==
    [ metric_name |-> metric_name, features |-> features,
      anomaly |-> anomaly_result, notes |-> << >> ]

\* PromptBuilder.get_response_schema: the array-length bounds it declares
SchemaMinItems == 2

SchemaMaxItems == 4

get_response_schema ==
    [ severity_enum |-> Severities, confidence_min |-> 0,
      confidence_max |-> Scale, min_items |-> SchemaMinItems,
      max_items |-> SchemaMaxItems ]

\* InsightService._get_metric_name
get_metric_name(request) ==
    IF request.input_type = "metrics"
    THEN IF request.data.metric_name = "" THEN "Unknown Metric"
         ELSE request.data.metric_name
    ELSE IF request.input_type = "text" THEN "Text Analysis"
    ELSE IF request.data.series_name = "" THEN "Time Series"
         ELSE request.data.series_name

(* --------------------------- model responses --------------------------- *)

\* What llm_client.generate may return, by what json.loads and
\* InsightOutput(**...) look at: whether the text is JSON, the JSON value's
\* type, and for an object the type or value of each InsightOutput field.
\*   summary:  "string", "null" or "missing"
\*   severity: the string given, or "missing"
\*   confidence_type: "number", "null" or "missing"; confidence in hundredths
\*   actions_type / findings_type: "list", "string" or "missing";
\*   n_actions / n_findings: the length of the list
Text(parseable, type, summary, severity, ctype, conf, atype, na, ftype, nf) ==
    [ parseable |-> parseable, type |-> type, summary |-> summary,
      severity |-> severity, confidence_type |-> ctype, confidence |-> conf,
      actions_type |-> atype, n_actions |-> na,
      findings_type |-> ftype, n_findings |-> nf ]

\* a JSON object with every field well-typed
ObjText(severity, conf, na, nf) ==
    Text(TRUE, "object", "string", severity, "number", conf, "list", na, "list", nf)

Garbage == Text(FALSE, "none", "missing", "missing", "missing", 0, "missing", 0, "missing", 0)

JsonArray == Text(TRUE, "array", "missing", "missing", "missing", 0, "missing", 0, "missing", 0)

GoodText == ObjText("high", 85, 3, 3)

ModelTexts ==
    { GoodText,
      ObjText("low", 0, 2, 4),
      ObjText("critical", Scale, 4, 2),
      Garbage,
      JsonArray,
      ObjText("urgent", 85, 3, 3),
      ObjText("medium", 150, 3, 3),
      ObjText("medium", -10, 3, 3),
      Text(TRUE, "object", "missing", "high", "number", 85, "list", 3, "list", 3),
      Text(TRUE, "object", "string", "high", "null", 0, "list", 3, "list", 3),
      Text(TRUE, "object", "string", "high", "number", 85, "string", 0, "list", 3),
      ObjText("high", 85, 1, 3),
      ObjText("high", 85, 3, 5),
      ObjText("high", 85, 0, 0) }

\* str(e) of the exceptions llm_client.generate raises; some exceptions
\* have an empty message
ModelErrors == { "503 Service Unavailable", "" }

\* str(e) of the JSONDecodeError json.loads raises
JsonErrorMessage == "Expecting value: line 1 column 1 (char 0)"

\* mutant: the parse check of the retry loop is dropped
json_loads_Lenient(text) == TRUE

\* json.loads(text) returns (TRUE) or raises JSONDecodeError (FALSE)
json_loads(text) == text.parseable

\* InsightOutput(**value): the field validation of the schema model
\* (summary: str, severity: Literal[...], confidence: float in [0, 1],
\* recommended_actions: List[str], key_findings: List[str])
InsightOutputValid(text) ==
    /\ text.summary = "string"
    /\ text.severity \in Severities
    /\ text.confidence_type = "number"
    /\ text.confidence >= 0
    /\ text.confidence <= Scale
    /\ text.actions_type = "list"
    /\ text.findings_type = "list"

\* an InsightOutput; origin tells which constructor call built it
InsightOutput(origin, direction, severity, confidence, na, nf, note) ==
    [ origin |-> origin, direction |-> direction, severity |-> severity,
      confidence |-> confidence, recommended_actions |-> na,
      key_findings |-> nf, rule_based_note |-> note ]

NoInsight == InsightOutput("none", "", "low", 0, 0, 0, FALSE)

\* InsightOutput(**json.loads(llm_output)) for a text that validates
ParsedInsight(text) ==
    InsightOutput("model", "", text.severity, text.confidence,
                  text.n_actions, text.n_findings, FALSE)

\* mutant: the provenance finding is left out
generate_fallback_insight_NoNote(features, metric_name) ==
    InsightOutput("fallback",
                  IF features.change_percent > 0 THEN "increase" ELSE "decrease",
                  features.severity, FallbackConfidence, 3, 2, FALSE)

\* InsightService._generate_fallback_insight(features, metric_name), for
\* features that are a FeatureSet
generate_fallback_insight(features, metric_name) ==
    InsightOutput("fallback",
                  IF features.change_percent > 0 THEN "increase" ELSE "decrease",
                  features.severity, FallbackConfidence, 3, 3, TRUE)

(* -------------------------------- state -------------------------------- *)

\* the generate_insight coroutines that may be in progress on one service
Calls == { "a", "b" }

\* the call a single caller (the route, or the batch task) drives
MainCalls == { "a" }

VARIABLES
    settings,        \* the Settings object the service was built with
    frame,           \* per call: the locals and position of generate_insight
    generate_calls,  \* per call: the llm_client.generate invocations it made
    uuids,           \* how many uuid4() values were drawn (insight_id defaults)
    db,              \* the insights table, and how many commits failed
    batch,           \* batch_generate_insights: position, locals, results
    direct           \* a helper called on its own, as the unit tests call it

vars == << settings, frame, generate_calls, uuids, db, batch, direct >>

NoRequest == InsightRequest("", "", "metrics", MetricsData("", << >>), NoContext)

NoPrompt == build_insight_prompt("", ZeroFeatures, NoAnomaly)

\* the frame of a generate_insight call on entry (lines 32-33): nothing
\* bound but start_time and fallback_used
NewFrame(request, pc) ==
    [ pc |-> pc, request |-> request,
      bound |-> {},                 \* which of features, metric_name are in locals()
      features_is_none |-> FALSE, features |-> ZeroFeatures,
      anomaly_result |-> NoAnomaly, metric_name |-> "", prompt |-> NoPrompt,
      attempt |-> 0, last_error |-> "",
      llm_output |-> Garbage, insight |-> NoInsight,
      fallback_used |-> FALSE,
      exc |-> "",                   \* the exception being handled or raised
      response |-> << >> ]

IdleFrame == NewFrame(NoRequest, "idle")

\* mutant: the handlers catch BaseException, cancellation included
IsException_All(kind) == TRUE

\* except Exception: every exception class but the BaseException-only ones
\* (asyncio.CancelledError derives from BaseException)
IsException(kind) == kind # "CancelledError"

\* an exception of class kind leaves the try block of generate_insight
Raise(f, kind) ==
    IF IsException(kind)
    THEN [ f EXCEPT !.pc = "guard", !.exc = kind ]
    ELSE [ f EXCEPT !.pc = "raised", !.exc = kind ]

\* no helper is being called on its own
NoDirect ==
    [ fn |-> "", pc |-> "idle", values |-> << >>, window |-> 0,
      context |-> NoContext, features |-> ZeroFeatures, metric_name |-> "",
      raised |-> "", result_features |-> ZeroFeatures,
      result_anomaly |-> NoAnomaly, result_insight |-> NoInsight ]

NoBatch ==
    [ pc |-> "idle", requests_data |-> << >>, i |-> 1,
      results |-> [ total |-> 0, successful |-> 0, failed |-> 0,
                    insight_ids |-> << >> ] ]

Init ==
    /\ settings \in { Settings(r) : r \in 0..MaxRetries }
    /\ frame = [ c \in Calls |-> IdleFrame ]
    /\ generate_calls = [ c \in Calls |-> << >> ]
    /\ uuids = 0
    /\ db = [ rows |-> << >>, errors |-> 0 ]
    /\ batch = NoBatch
    /\ direct = NoDirect

(* ------------------------- generate_insight ---------------------------- *)

\* requests a caller hands to generate_insight.  request.data is a plain
\* dict, so a metrics request may reach the service with fewer values than
\* MetricsData admits (built without validation, or changed afterwards):
\* _extract_features checks for it at lines 129-131.
SomeThresholds == ContextConfig(TRUE, TRUE, Thresholds({"critical"}, 40, 0, 0))

Requests ==
    { InsightRequest("u1", "t1", "metrics", MetricsData("revenue", <<100, 150>>), NoContext),
      InsightRequest("u1", "t1", "metrics", MetricsData("revenue", <<150, 100>>), NoContext),
      InsightRequest("u2", "t1", "metrics", MetricsData("revenue", <<100, 140>>), SomeThresholds),
      InsightRequest("u2", "t2", "metrics", MetricsData("latency", <<100, 105, 98, 102, 500>>), NoContext),
      InsightRequest("u1", "t1", "metrics", MetricsData("revenue", <<100>>), NoContext),
      InsightRequest("u1", "t1", "metrics", MetricsData("revenue", << >>), NoContext),
      InsightRequest("u1", "t2", "text", TextData("urgent outage"), NoContext),
      InsightRequest("u2", "t2", "timeseries", TimeSeriesData("cpu", 2), NoContext) }

\* a caller awaits service.generate_insight(request)
Receive(c) ==
    /\ frame[c].pc = "idle"
    /\ \E r \in Requests : frame' = [ frame EXCEPT ![c] = NewFrame(r, "extract") ]
    /\ UNCHANGED << settings, generate_calls, uuids, db, batch, direct >>

\* mutant: too few values are not an error; the call goes on with the
\* zeroed features
ExtractFeatures_Lenient(c) ==
    LET f == frame[c]
    IN  /\ f.pc = "extract"
        /\ frame' = [ frame EXCEPT ![c] =
              [ f EXCEPT !.pc = "detect", !.bound = @ \cup {"features"},
                  !.features = ZeroFeatures ] ]
        /\ UNCHANGED << settings, generate_calls, uuids, db, batch, direct >>

\* Step 1 (lines 39-40): features = self._extract_features(request), then
\* features.dict() for the log line
ExtractFeatures(c) ==
    LET f == frame[c]
        values == f.request.data.values
    IN  /\ f.pc = "extract"
        /\ frame' = [ frame EXCEPT ![c] =
              IF f.request.input_type = "metrics"
              THEN IF Len(values) < 2
                   THEN Raise(f, "ValueError")
                   ELSE [ f EXCEPT !.pc = "detect",
                            !.bound = @ \cup {"features"},
                            !.features = extract_from_metrics(
                                settings, values, f.request.context) ]
              \* no branch for text or timeseries: the method returns None,
              \* and None.dict() raises AttributeError with features bound
              ELSE Raise([ f EXCEPT !.bound = @ \cup {"features"},
                             !.features_is_none = TRUE ], "AttributeError") ]
        /\ UNCHANGED << settings, generate_calls, uuids, db, batch, direct >>

\* Step 1.1 (lines 43-49)
DetectAnomaly(c) ==
    LET f == frame[c]
        values == f.request.data.values
    IN  /\ f.pc = "detect"
        /\ frame' = [ frame EXCEPT ![c] =
              [ f EXCEPT !.pc = "build",
                  !.anomaly_result =
                      IF f.request.input_type = "metrics" /\ Len(values) >= 3
                      THEN z_score_detection(values) ELSE NoAnomaly ] ]
        /\ UNCHANGED << settings, generate_calls, uuids, db, batch, direct >>

\* Step 2 (lines 52-58), and the entry of _call_llm_with_retry (153-154)
BuildPrompt(c) ==
    LET f == frame[c]
        name == get_metric_name(f.request)
    IN  /\ f.pc = "build"
        /\ frame' = [ frame EXCEPT ![c] =
              [ f EXCEPT !.pc = "loop",
                  !.bound = @ \cup {"metric_name"},
                  !.metric_name = name,
                  !.prompt = build_insight_prompt(name, f.features, f.anomaly_result),
                  !.attempt = 0, !.last_error = "" ] ]
        /\ UNCHANGED << settings, generate_calls, uuids, db, batch, direct >>

\* range(self.settings.llm_max_retries)
RetryRange(s) == 0..(s.llm_max_retries - 1)

\* mutant: the last-attempt test is off by one
IsLastAttempt_Early(s, attempt) == attempt = s.llm_max_retries - 2

\* attempt == self.settings.llm_max_retries - 1 (line 178)
IsLastAttempt(s, attempt) == attempt = s.llm_max_retries - 1

\* the note line 162 appends to the prompt
RetryNote(prompt, attempt, last_error) ==
    IF attempt > 0 /\ last_error # ""
    THEN [ prompt EXCEPT !.notes = Append(@, last_error) ]
    ELSE prompt

\* the loop is over without a return or a raise (line 181)
RetryLimitExceeded(c) ==
    LET f == frame[c]
    IN  /\ f.pc = "loop"
        /\ f.attempt \notin RetryRange(settings)
        /\ frame' = [ frame EXCEPT ![c] = Raise(f, "Exception") ]
        /\ UNCHANGED << settings, generate_calls, uuids, db, batch, direct >>

\* mutant: a retry (a prompt that carries a note) is sent at a lower
\* temperature
GenerateCall_RetryCooler(prompt, schema, temperature) ==
    [ prompt |-> prompt, response_schema |-> schema,
      temperature |-> IF prompt.notes = << >> THEN temperature ELSE 0,
      outcome |-> "pending", text |-> Garbage, error |-> "" ]

\* llm_client.generate(prompt=, response_schema=, temperature=) as the
\* client sees it: the arguments, and how the call ended once it has
\* ("returned" with text, "raised" with error, "cancelled")
GenerateCall(prompt, schema, temperature) ==
    [ prompt |-> prompt, response_schema |-> schema, temperature |-> temperature,
      outcome |-> "pending", text |-> Garbage, error |-> "" ]

\* the call in flight ends
Completed(calls, outcome, text, error) ==
    [ calls EXCEPT ![Len(calls)] =
        [ @ EXCEPT !.outcome = outcome, !.text = text, !.error = error ] ]

\* mutant: last_error is kept on the service, so a call reads the error
\* the other call stored
InvokeModel_SharedError(c) ==
    LET f == frame[c]
        other == CHOOSE d \in Calls : d # c
        prompt == RetryNote(f.prompt, f.attempt, frame[other].last_error)
    IN  /\ f.pc = "loop"
        /\ f.attempt \in RetryRange(settings)
        /\ frame' = [ frame EXCEPT ![c] = [ f EXCEPT !.pc = "await", !.prompt = prompt ] ]
        /\ generate_calls' = [ generate_calls EXCEPT ![c] =
              Append(@, GenerateCall(prompt, get_response_schema, Temperature)) ]
        /\ UNCHANGED << settings, uuids, db, batch, direct >>

\* one iteration up to the await (lines 157-168)
InvokeModel(c) ==
    LET f == frame[c]
        prompt == RetryNote(f.prompt, f.attempt, f.last_error)
    IN  /\ f.pc = "loop"
        /\ f.attempt \in RetryRange(settings)
        /\ frame' = [ frame EXCEPT ![c] = [ f EXCEPT !.pc = "await", !.prompt = prompt ] ]
        /\ generate_calls' = [ generate_calls EXCEPT ![c] =
              Append(@, GenerateCall(prompt, get_response_schema, Temperature)) ]
        /\ UNCHANGED << settings, uuids, db, batch, direct >>

\* the except clause of the loop (lines 174-179), for an exception of
\* class kind and message msg raised inside the try of the iteration
AttemptRaised(f, s, kind, msg) ==
    IF ~IsException(kind) THEN Raise(f, kind)
    ELSE IF IsLastAttempt(s, f.attempt)
    THEN Raise([ f EXCEPT !.last_error = msg ], kind)
    ELSE [ f EXCEPT !.last_error = msg, !.attempt = @ + 1, !.pc = "loop" ]

\* lines 171-172: json.loads(response); return response
AttemptReturned(f, s, text) ==
    IF json_loads(text)
    THEN [ f EXCEPT !.pc = "validate", !.llm_output = text ]
    ELSE AttemptRaised(f, s, "JSONDecodeError", JsonErrorMessage)

\* llm_client.generate returns a text
ModelReturns(c) ==
    /\ frame[c].pc = "await"
    /\ \E text \in ModelTexts :
          /\ frame' = [ frame EXCEPT ![c] = AttemptReturned(frame[c], settings, text) ]
          /\ generate_calls' = [ generate_calls EXCEPT ![c] =
                Completed(@, "returned", text, "") ]
    /\ UNCHANGED << settings, uuids, db, batch, direct >>

\* llm_client.generate raises (HTTP error, timeout, missing content)
ModelRaises(c) ==
    /\ frame[c].pc = "await"
    /\ \E msg \in ModelErrors :
          /\ frame' = [ frame EXCEPT ![c] = AttemptRaised(frame[c], settings, "LLMError", msg) ]
          /\ generate_calls' = [ generate_calls EXCEPT ![c] =
                Completed(@, "raised", Garbage, msg) ]
    /\ UNCHANGED << settings, uuids, db, batch, direct >>

\* the awaited model call is cancelled: asyncio.CancelledError is raised
\* at the await of line 164
ModelCancelled(c) ==
    /\ frame[c].pc = "await"
    /\ frame' = [ frame EXCEPT ![c] = AttemptRaised(frame[c], settings, "CancelledError", "") ]
    /\ generate_calls' = [ generate_calls EXCEPT ![c] = Completed(@, "cancelled", Garbage, "") ]
    /\ UNCHANGED << settings, uuids, db, batch, direct >>

\* mutant: the fallback insight is used but the flag is not set
ValidationFailed_NoFlag(f) ==
    [ f EXCEPT !.pc = "assemble",
        !.insight = generate_fallback_insight(f.features, f.metric_name) ]

\* the except clause of Step 4 (lines 66-70)
ValidationFailed(f) ==
    [ f EXCEPT !.pc = "assemble",
        !.insight = generate_fallback_insight(f.features, f.metric_name),
        !.fallback_used = TRUE ]

\* mutant: a validation failure goes back to the retry loop
Validate_Retry(f) ==
    IF f.llm_output.type = "object" /\ InsightOutputValid(f.llm_output)
    THEN [ f EXCEPT !.pc = "assemble", !.insight = ParsedInsight(f.llm_output) ]
    ELSE [ f EXCEPT !.pc = "loop", !.attempt = @ + 1,
             !.last_error = "validation failed" ]

\* mutant: a detected anomaly overrides the model's insight with the
\* rule-based one
Validate_AnomalyFallback(f) ==
    IF f.llm_output.type # "object"
    THEN Raise(f, "TypeError")
    ELSE IF InsightOutputValid(f.llm_output) /\ ~f.anomaly_result.is_anomaly
    THEN [ f EXCEPT !.pc = "assemble", !.insight = ParsedInsight(f.llm_output) ]
    ELSE ValidationFailed(f)

\* Step 4 (lines 64-70): InsightOutput(**json.loads(llm_output))
Validate(f) ==
    IF f.llm_output.type # "object"
    THEN Raise(f, "TypeError")       \* ** of a value that is no mapping
    ELSE IF InsightOutputValid(f.llm_output)
    THEN [ f EXCEPT !.pc = "assemble", !.insight = ParsedInsight(f.llm_output) ]
    ELSE ValidationFailed(f)

ValidateOutput(c) ==
    /\ frame[c].pc = "validate"
    /\ frame' = [ frame EXCEPT ![c] = Validate(frame[c]) ]
    /\ UNCHANGED << settings, generate_calls, uuids, db, batch, direct >>

\* mutant: the outer handler lets the exception through
Guard_Reraise(f) == [ f EXCEPT !.pc = "raised" ]

\* mutant: the outer handler always builds the zeroed FeatureSet
Guard_Zeroed(f) ==
    LET g == [ f EXCEPT
                 !.features = ZeroFeatures,
                 !.metric_name = IF "metric_name" \in f.bound THEN @
                                 ELSE get_metric_name(f.request),
                 !.bound = @ \cup {"features", "metric_name"} ]
    IN  IF g.features_is_none
        THEN [ g EXCEPT !.pc = "raised", !.exc = "AttributeError" ]
        ELSE [ g EXCEPT !.pc = "assemble",
                 !.insight = generate_fallback_insight(g.features, g.metric_name),
                 !.fallback_used = TRUE ]

\* the outer handler (lines 72-100), entered with the exception in f.exc
Guard(f) ==
    LET g == [ f EXCEPT
                 !.features = IF "features" \in f.bound THEN @ ELSE ZeroFeatures,
                 !.metric_name = IF "metric_name" \in f.bound THEN @
                                 ELSE get_metric_name(f.request),
                 !.bound = @ \cup {"features", "metric_name"} ]
    IN  IF g.features_is_none
        \* _generate_fallback_insight(None, ...) raises inside the handler
        THEN [ g EXCEPT !.pc = "raised", !.exc = "AttributeError" ]
        ELSE [ g EXCEPT !.pc = "assemble",
                 !.insight = generate_fallback_insight(g.features, g.metric_name),
                 !.fallback_used = TRUE ]

OuterGuard(c) ==
    /\ frame[c].pc = "guard"
    /\ frame' = [ frame EXCEPT ![c] = Guard(frame[c]) ]
    /\ UNCHANGED << settings, generate_calls, uuids, db, batch, direct >>

\* len(request.data.get('values', [1, 2]))
DataPointsCount(request) ==
    IF request.input_type = "metrics" THEN Len(request.data.values) ELSE 2

\* Step 5 (lines 103-121)
InsightResponse(f, id) ==
    [ insight_id |-> id,
      user_id |-> f.request.user_id, tenant_id |-> f.request.tenant_id,
      metric_name |-> f.metric_name,
      data_points_count |-> DataPointsCount(f.request),
      features |-> f.features, insight |-> f.insight,
      fallback_used |-> f.fallback_used ]

Assemble(c) ==
    /\ frame[c].pc = "assemble"
    /\ uuids' = uuids + 1
    /\ frame' = [ frame EXCEPT ![c] =
          [ @ EXCEPT !.pc = "returned",
              !.response = << InsightResponse(frame[c], uuids') >> ] ]
    /\ UNCHANGED << settings, generate_calls, db, batch, direct >>

\* the steps of a generate_insight call in progress
Step(c) ==
    \/ ExtractFeatures(c)
    \/ DetectAnomaly(c)
    \/ BuildPrompt(c)
    \/ RetryLimitExceeded(c)
    \/ InvokeModel(c)
    \/ ModelReturns(c)
    \/ ModelRaises(c)
    \/ ModelCancelled(c)
    \/ ValidateOutput(c)
    \/ OuterGuard(c)
    \/ Assemble(c)

Next == \E c \in MainCalls : Receive(c) \/ Step(c)

Spec == Init /\ [][Next]_vars

(* -------------- generate_insight with a model that answers ------------- *)

\* the steps of a call whose model calls all return or raise (none is
\* cancelled)
StepLive(c) ==
    \/ ExtractFeatures(c)
    \/ DetectAnomaly(c)
    \/ BuildPrompt(c)
    \/ RetryLimitExceeded(c)
    \/ InvokeModel(c)
    \/ ModelReturns(c)
    \/ ModelRaises(c)
    \/ ValidateOutput(c)
    \/ OuterGuard(c)
    \/ Assemble(c)

NextLive == \E c \in MainCalls : Receive(c) \/ StepLive(c)

\* the event loop keeps running a coroutine that can take a step, and the
\* model client ends every call it was given (the client's request timeout)
SpecLive ==
    Init /\ [][NextLive]_vars /\ \A c \in MainCalls : WF_vars(StepLive(c))

(* ----------------------- batch_generate_insights ----------------------- *)

\* request dictionaries a batch may hold: two that construct an
\* InsightRequest and two that do not (one value; no tenant_id)
BatchItems ==
    { InsightRequest("u1", "t1", "metrics", MetricsData("revenue", <<100, 150>>), NoContext),
      InsightRequest("u1", "t1", "text", TextData("urgent outage"), NoContext),
      InsightRequest("u1", "t1", "metrics", MetricsData("revenue", <<100>>), NoContext),
      InsightRequest("u2", "", "metrics", MetricsData("revenue", <<100, 150>>), NoContext) }

BatchInputs == UNION { [ 1..n -> BatchItems ] : n \in 0..MaxBatch }

\* lines 115-128: the task starts with its requests_data
BatchStart ==
    /\ batch.pc = "idle"
    /\ \E reqs \in BatchInputs :
          batch' = [ pc |-> "loop", requests_data |-> reqs, i |-> 1,
                     results |-> [ total |-> Len(reqs), successful |-> 0,
                                   failed |-> 0, insight_ids |-> << >> ] ]
    /\ UNCHANGED << settings, frame, generate_calls, uuids, db, direct >>

\* mutant: a failed item is logged but not counted
ItemFailed_NoCount(b) == [ b EXCEPT !.pc = "loop", !.i = @ + 1 ]

\* the except clause of the loop body (lines 149-151), then the next item
ItemFailed(b) ==
    [ b EXCEPT !.pc = "loop", !.i = @ + 1, !.results.failed = @ + 1 ]

\* lines 146-147, then the next item
ItemSucceeded(b, id) ==
    [ b EXCEPT !.pc = "loop", !.i = @ + 1, !.results.successful = @ + 1,
        !.results.insight_ids = Append(@, id) ]

\* line 132 raises: the dictionary is no InsightRequest
BatchItemInvalid ==
    /\ batch.pc = "loop"
    /\ batch.i <= Len(batch.requests_data)
    /\ ~InsightRequestValid(batch.requests_data[batch.i])
    /\ batch' = ItemFailed(batch)
    /\ UNCHANGED << settings, frame, generate_calls, uuids, db, direct >>

\* lines 132-136: the request is built and generate_insight is run
BatchItemStart ==
    /\ batch.pc = "loop"
    /\ batch.i <= Len(batch.requests_data)
    /\ InsightRequestValid(batch.requests_data[batch.i])
    /\ batch' = [ batch EXCEPT !.pc = "run" ]
    /\ frame' = [ frame EXCEPT !["a"] = NewFrame(batch.requests_data[batch.i], "extract") ]
    /\ generate_calls' = [ generate_calls EXCEPT !["a"] = << >> ]
    /\ UNCHANGED << settings, uuids, db, direct >>

\* run_until_complete raises what generate_insight raised, an Exception
BatchItemRaised ==
    /\ batch.pc = "run"
    /\ frame["a"].pc = "raised"
    /\ IsException(frame["a"].exc)
    /\ batch' = ItemFailed(batch)
    /\ UNCHANGED << settings, frame, generate_calls, uuids, db, direct >>

\* run_until_complete raises CancelledError, which except Exception does
\* not catch: the task ends without returning results
BatchItemCancelled ==
    /\ batch.pc = "run"
    /\ frame["a"].pc = "raised"
    /\ ~IsException(frame["a"].exc)
    /\ batch' = [ batch EXCEPT !.pc = "aborted" ]
    /\ UNCHANGED << settings, frame, generate_calls, uuids, db, direct >>

\* lines 139-147: repo.create(result) commits the row
BatchItemSaved ==
    /\ batch.pc = "run"
    /\ frame["a"].pc = "returned"
    /\ db' = [ db EXCEPT !.rows = Append(@, frame["a"].response[1].insight_id) ]
    /\ batch' = ItemSucceeded(batch, frame["a"].response[1].insight_id)
    /\ UNCHANGED << settings, frame, generate_calls, uuids, direct >>

\* lines 139-144, 149-151: repo.create(result) raises
BatchItemSaveFailed ==
    /\ batch.pc = "run"
    /\ frame["a"].pc = "returned"
    /\ db' = [ db EXCEPT !.errors = @ + 1 ]
    /\ batch' = ItemFailed(batch)
    /\ UNCHANGED << settings, frame, generate_calls, uuids, direct >>

\* lines 153-154: the loop is over, results are returned
BatchReturn ==
    /\ batch.pc = "loop"
    /\ batch.i > Len(batch.requests_data)
    /\ batch' = [ batch EXCEPT !.pc = "done" ]
    /\ UNCHANGED << settings, frame, generate_calls, uuids, db, direct >>

NextBatch ==
    \/ BatchStart
    \/ BatchItemInvalid
    \/ BatchItemStart
    \/ \E c \in MainCalls : Step(c)
    \/ BatchItemRaised
    \/ BatchItemCancelled
    \/ BatchItemSaved
    \/ BatchItemSaveFailed
    \/ BatchReturn

SpecBatch == Init /\ [][NextBatch]_vars

(* ------------- concurrent generate_insight calls on one service -------- *)

\* ten values of 100 and then 150: the last value is a z-score anomaly
SteadyThenJump == [ i \in 1..11 |-> IF i = 11 THEN 150 ELSE 100 ]

\* requests of the concurrent callers: three with the same metric name, last
\* two values and context (anomaly detection not run, run with is_anomaly
\* false, run with is_anomaly true) and one that differs in all of them
ConcRequests ==
    { InsightRequest("u1", "t1", "metrics", MetricsData("revenue", <<100, 150>>), NoContext),
      InsightRequest("u1", "t1", "metrics", MetricsData("revenue", <<120, 100, 150>>), NoContext),
      InsightRequest("u1", "t1", "metrics", MetricsData("revenue", SteadyThenJump), NoContext),
      InsightRequest("u2", "t2", "metrics", MetricsData("latency", <<150, 100>>), NoContext) }

\* what the model client of the shared service answers with: a valid
\* insight, an object that fails validation, text that is not JSON
ConcTexts == { GoodText, ObjText("urgent", 85, 3, 3), Garbage }

ConcErrors == { "503 Service Unavailable" }

\* the answers the client gave so far are among ConcTexts and ConcErrors
ConcAnswers ==
    \A c \in Calls : \A k \in 1..Len(generate_calls[c]) :
        LET a == generate_calls[c][k]
        IN  /\ a.outcome = "returned" => a.text \in ConcTexts
            /\ a.outcome = "raised" => a.error \in ConcErrors

\* a caller awaits service.generate_insight(request) on the shared service
ReceiveConc(c) ==
    /\ frame[c].pc = "idle"
    /\ \E r \in ConcRequests : frame' = [ frame EXCEPT ![c] = NewFrame(r, "extract") ]
    /\ UNCHANGED << settings, generate_calls, uuids, db, batch, direct >>

\* the event loop runs one call up to its next suspension or return
NextConc ==
    \E c \in Calls :
        \/ ReceiveConc(c)
        \/ Step(c) /\ ConcAnswers'

SpecConc == Init /\ [][NextConc]_vars

(* ------------------- helpers called on their own ----------------------- *)

\* all sequences over S of length 0..n
SeqsUpTo(S, n) == UNION { [ 1..k -> S ] : k \in 0..n }

\* values handed to extract_from_metrics: negative, zero and positive,
\* changes of 25 %, 30 % and 50 % from 100, and a change of 9.995002 % (from
\* 2001 to 2201)
FeatureValues == { -100, -50, 0, 100, 125, 130, 150, 2001, 2201 }

\* the context argument: None, a context without thresholds, a thresholds
\* dict holding one tier, thresholds dicts holding all three (ascending from
\* medium to critical, and not)
FeatureContexts ==
    { NoContext,
      ContextConfig(TRUE, FALSE, Thresholds({}, 0, 0, 0)),
      SomeThresholds,
      ContextConfig(TRUE, TRUE, Thresholds({"critical", "high", "medium"}, 30, 20, 5)),
      ContextConfig(TRUE, TRUE, Thresholds({"critical", "high", "medium"}, 10, 50, 25)),
      ContextConfig(TRUE, TRUE, Thresholds({"critical", "high", "medium"}, 50, 10, 25)) }

\* the settings of the service under test: the defaults, and thresholds
\* set through SEVERITY_THRESHOLD_CRITICAL / _HIGH / _MEDIUM
DirectSettings == { Settings(MaxRetries), SettingsWith(MaxRetries, 60, 30, 15) }

\* values handed to the detectors
SeriesValues == { 100, 105, 500 }

\* the sequences of tests/test_anomaly_detection.py
TestNormal == <<100, 105, 98, 102, 110>>

TestOutlier == <<100, 105, 98, 102, 500>>

TestSeries ==
    { TestNormal, TestOutlier, <<100, 105>>, <<100, 100, 100, 100>>,
      <<100, 105, 110, 108, 112, 115>>, <<100, 105, 110, 108, 112, 300>> }

Series == SeqsUpTo(SeriesValues, MaxSeries) \cup TestSeries \cup { SteadyThenJump }

\* FeatureSets handed to _generate_fallback_insight
FallbackFeatures ==
    { FeatureSet(100, cur, ca, cp, sev) :
        cur \in { 50, 150 }, ca \in { -50, 50 }, cp \in { -5000, 0, 5000 },
        sev \in Severities }

DirectCall(fn, values, window, context, features, metric_name) ==
    [ NoDirect EXCEPT !.fn = fn, !.pc = "call", !.values = values,
        !.window = window, !.context = context, !.features = features,
        !.metric_name = metric_name ]

\* the calls a unit test may make
DirectCalls ==
    { DirectCall("extract_from_metrics", v, 0, ctx, ZeroFeatures, "") :
        v \in SeqsUpTo(FeatureValues, MaxLen), ctx \in FeatureContexts }
    \cup { DirectCall("z_score_detection", v, 0, NoContext, ZeroFeatures, "") :
        v \in Series }
    \cup { DirectCall("rolling_std_detection", v, w, NoContext, ZeroFeatures, "") :
        v \in Series, w \in 1..MaxWindow }
    \cup { DirectCall("iqr_detection", v, 0, NoContext, ZeroFeatures, "") :
        v \in Series }
    \cup { DirectCall("_generate_fallback_insight", << >>, 0, NoContext, fs, name) :
        fs \in FallbackFeatures, name \in { "revenue", "Unknown Metric" } }

InitDirect ==
    /\ settings \in DirectSettings
    /\ frame = [ c \in Calls |-> IdleFrame ]
    /\ generate_calls = [ c \in Calls |-> << >> ]
    /\ uuids = 0
    /\ db = [ rows |-> << >>, errors |-> 0 ]
    /\ batch = NoBatch
    /\ direct \in DirectCalls

\* FeatureExtractor(settings).extract_from_metrics(values, context)
CallExtract ==
    /\ direct.pc = "call"
    /\ direct.fn = "extract_from_metrics"
    /\ direct' = IF Len(direct.values) < 2
                 THEN [ direct EXCEPT !.pc = "done", !.raised = "ValueError" ]
                 ELSE [ direct EXCEPT !.pc = "done",
                          !.result_features = extract_from_metrics(
                              settings, direct.values, direct.context) ]
    /\ UNCHANGED << settings, frame, generate_calls, uuids, db, batch >>

\* AnomalyDetector.z_score_detection(values)
CallZScore ==
    /\ direct.pc = "call"
    /\ direct.fn = "z_score_detection"
    /\ direct' = [ direct EXCEPT !.pc = "done",
                     !.result_anomaly = z_score_detection(direct.values) ]
    /\ UNCHANGED << settings, frame, generate_calls, uuids, db, batch >>

\* AnomalyDetector.rolling_std_detection(values, window)
CallRollingStd ==
    /\ direct.pc = "call"
    /\ direct.fn = "rolling_std_detection"
    /\ direct' = [ direct EXCEPT !.pc = "done",
                     !.result_anomaly =
                         rolling_std_detection(direct.values, direct.window) ]
    /\ UNCHANGED << settings, frame, generate_calls, uuids, db, batch >>

\* AnomalyDetector.iqr_detection(values)
CallIqr ==
    /\ direct.pc = "call"
    /\ direct.fn = "iqr_detection"
    /\ direct' = [ direct EXCEPT !.pc = "done",
                     !.result_anomaly = iqr_detection(direct.values) ]
    /\ UNCHANGED << settings, frame, generate_calls, uuids, db, batch >>

\* InsightService._generate_fallback_insight(features, metric_name)
CallFallback ==
    /\ direct.pc = "call"
    /\ direct.fn = "_generate_fallback_insight"
    /\ direct' = [ direct EXCEPT !.pc = "done",
                     !.result_insight = generate_fallback_insight(
                         direct.features, direct.metric_name) ]
    /\ UNCHANGED << settings, frame, generate_calls, uuids, db, batch >>

NextDirect ==
    \/ CallExtract
    \/ CallZScore
    \/ CallRollingStd
    \/ CallIqr
    \/ CallFallback

SpecDirect == InitDirect /\ [][NextDirect]_vars

(* ============================== properties ============================= *)

Finished(c) == frame[c].pc \in { "returned", "raised" }

Returned(c) == frame[c].pc = "returned"

Response(c) == frame[c].response[1]

Invocations(c) == Len(generate_calls[c])

\* the retry loop returned a text to generate_insight
Accepted(c) ==
    /\ Invocations(c) > 0
    /\ frame[c].pc \in { "validate", "guard", "assemble", "returned", "raised" }
    /\ frame[c].llm_output = Last(generate_calls[c]).text
    /\ Last(generate_calls[c]).outcome = "returned"
    /\ frame[c].exc \in { "", "TypeError" }

\* attempt k of the call ended as a failure of the model client or with
\* text that is not JSON
AttemptFailedAt(c, k) ==
    LET a == generate_calls[c][k]
    IN  \/ a.outcome = "raised"
        \/ a.outcome = "returned" /\ ~a.text.parseable

ValidMetrics(r) == r.input_type = "metrics" /\ Len(r.data.values) >= 2

InRange(n, lo, hi) == lo <= n /\ n <= hi

\* C1: in every returned response, fallback_used is true exactly when the
\* insight was built by the rule-based generator, and false exactly when it
\* is the parse of the text the retry loop accepted.
C1_FallbackFlagExact ==
    \A c \in Calls : Returned(c) =>
        LET r == Response(c)
        IN  /\ r.fallback_used <=> r.insight.origin = "fallback"
            /\ ~r.fallback_used <=>
                  /\ Accepted(c)
                  /\ frame[c].llm_output.parseable
                  /\ r.insight = ParsedInsight(frame[c].llm_output)

\* a response built by the fallback after the accepted text failed validation
C1_Witness ==
    \E c \in Calls :
        /\ Returned(c)
        /\ Response(c).fallback_used
        /\ Accepted(c)
        /\ frame[c].exc = ""

\* C2: for a structurally valid request of any input type, generate_insight
\* returns a response and raises nothing to its caller (stated here for the
\* exceptions that are not a cancellation).
C2_NeverPropagates ==
    \A c \in Calls :
        (InsightRequestValid(frame[c].request) /\ frame[c].pc = "raised")
            => frame[c].exc = "CancelledError"

\* C3: when every attempt of the model client fails, a metrics request with
\* at least 2 values is answered, without raising, by a response with
\* fallback_used, confidence 0.60 and 2 to 4 actions and findings.
C3_AlwaysFailingModel ==
    \A c \in Calls :
        ( /\ ValidMetrics(frame[c].request)
          /\ frame[c].pc \in { "guard", "assemble", "returned", "raised" }
          /\ \A k \in 1..Invocations(c) : generate_calls[c][k].outcome = "raised" )
        => /\ frame[c].pc # "raised"
           /\ Returned(c) =>
                 /\ Response(c).fallback_used
                 /\ Response(c).insight.confidence = FallbackConfidence
                 /\ InRange(Response(c).insight.recommended_actions, 2, 4)
                 /\ InRange(Response(c).insight.key_findings, 2, 4)

C3_Witness ==
    \E c \in Calls :
        /\ ValidMetrics(frame[c].request)
        /\ Returned(c)
        /\ Invocations(c) = 3
        /\ \A k \in 1..Invocations(c) : generate_calls[c][k].outcome = "raised"

\* C4: the model is invoked one call at a time and at most llm_max_retries
\* times; the number of invocations is the index of the first attempt that
\* returned parseable text, or llm_max_retries when every attempt failed,
\* and then the failure leaves the loop and the call ends in the fallback.
C4_BoundedSequentialAttempts ==
    \A c \in Calls :
        LET f == frame[c]
            n == Invocations(c)
            calls == generate_calls[c]
        IN  /\ n <= settings.llm_max_retries
            /\ \A k \in 1..n : calls[k].outcome = "pending" => (k = n /\ f.pc = "await")
            /\ f.pc = "await" => calls[n].outcome = "pending"
            /\ \A k \in 1..n :
                  (calls[k].outcome = "returned" /\ calls[k].text.parseable)
                      => (n = k /\ \A j \in 1..(k - 1) : AttemptFailedAt(c, j))
            /\ ( /\ f.pc \in { "guard", "assemble", "returned", "raised" }
                /\ f.request.input_type = "metrics"
                /\ Len(f.request.data.values) >= 2
                /\ \A k \in 1..n : AttemptFailedAt(c, k) )
                => /\ n = settings.llm_max_retries
                   /\ f.pc # "raised"
                   /\ f.exc \in { "LLMError", "JSONDecodeError", "Exception" }
                   /\ Returned(c) => Response(c).fallback_used

\* every one of three attempts failed and the call ended in the fallback
C4_Witness ==
    \E c \in Calls :
        /\ Returned(c)
        /\ Invocations(c) = 3
        /\ settings.llm_max_retries = 3
        /\ \A k \in 1..3 : AttemptFailedAt(c, k)
        /\ Response(c).fallback_used

\* C5: text that does not parse as JSON is a failed attempt of the retry
\* loop: it is never the accepted response, and when another attempt
\* remains the model is invoked again (else the failure leaves the loop).
C5_UnparseableIsAttemptFailure ==
    \A c \in Calls :
        LET f == frame[c]
            n == Invocations(c)
        IN  /\ f.pc \in { "validate", "assemble", "returned" } /\ f.exc = ""
                => f.llm_output.parseable
            /\ \A k \in 1..n :
                  LET a == generate_calls[c][k]
                  IN  (a.outcome = "returned" /\ ~a.text.parseable) =>
                        IF k < settings.llm_max_retries
                        THEN \/ n > k
                             \/ /\ f.pc = "loop"
                                /\ f.attempt = k
                                /\ f.last_error = JsonErrorMessage
                                /\ ENABLED InvokeModel(c)
                        ELSE /\ f.exc = "JSONDecodeError"
                             /\ f.pc \in { "guard", "assemble", "returned" }

\* unparseable text on the first attempt, and a second invocation made
C5_Witness ==
    \E c \in Calls :
        /\ Invocations(c) = 2
        /\ generate_calls[c][1].outcome = "returned"
        /\ ~generate_calls[c][1].text.parseable
        /\ generate_calls[c][2].prompt.notes = << JsonErrorMessage >>

\* C6: accepted text that does not validate as an InsightOutput (or is no
\* JSON object) sends the call to the fallback, fallback_used = true, with
\* no further model invocation.
C6_InvalidOutputFallsBack ==
    \A c \in Calls :
        LET f == frame[c]
            n == Invocations(c)
        IN  \A k \in 1..n :
              LET a == generate_calls[c][k]
              IN  ( /\ a.outcome = "returned"
                    /\ a.text.parseable
                    /\ ~(a.text.type = "object" /\ InsightOutputValid(a.text)) )
                  => /\ n = k
                     /\ f.llm_output = a.text
                     /\ f.pc \in { "validate", "guard", "assemble", "returned" }
                     /\ f.pc \in { "assemble", "returned" }
                           => f.fallback_used /\ f.insight.origin = "fallback"
                     /\ Returned(c) => Response(c).fallback_used

\* a returned fallback response after one invocation whose text was a
\* JSON array
C6_Witness ==
    \E c \in Calls :
        /\ Returned(c)
        /\ Accepted(c)
        /\ frame[c].llm_output = JsonArray
        /\ Invocations(c) = 1
        /\ Response(c).fallback_used

\* C7: every returned insight, parsed or fallback, has severity in the
\* enum, confidence in [0, 1] and 2 to 4 actions and findings.
C7_SameShapeConstraints ==
    \A c \in Calls : Returned(c) =>
        LET i == Response(c).insight
        IN  /\ i.severity \in Severities
            /\ InRange(i.confidence, 0, Scale)
            /\ InRange(i.recommended_actions, SchemaMinItems, SchemaMaxItems)
            /\ InRange(i.key_findings, SchemaMinItems, SchemaMaxItems)

\* C8: a metrics request with fewer than 2 values ends in an error raised
\* to the caller, with no fallback and no response.
C8_InvalidInputPropagates ==
    \A c \in Calls :
        ( /\ frame[c].request.input_type = "metrics"
          /\ Len(frame[c].request.data.values) < 2
          /\ frame[c].pc \notin { "idle", "extract" } )
        => /\ frame[c].pc = "raised"
           /\ frame[c].exc = "ValueError"
           /\ frame[c].insight = NoInsight
           /\ frame[c].response = << >>

\* C10: a cancelled model call is a failed attempt: the model is invoked
\* again when an attempt remains, and after the last attempt the call ends
\* in the fallback with fallback_used = true.
C10_CancellationIsAttemptFailure ==
    \A c \in Calls :
        LET f == frame[c]
            n == Invocations(c)
        IN  \A k \in 1..n :
              generate_calls[c][k].outcome = "cancelled" =>
                IF k < settings.llm_max_retries
                THEN n > k \/ (f.pc = "loop" /\ f.attempt = k)
                ELSE /\ f.pc \in { "guard", "assemble", "returned" }
                     /\ Returned(c) => Response(c).fallback_used

\* how many dictionaries of the batch do not construct an InsightRequest
Malformed(reqs) == Cardinality({ i \in 1..Len(reqs) : ~InsightRequestValid(reqs[i]) })

\* C9: a batch of N requests of which k are malformed, with every commit
\* succeeding, returns successful = N - k and failed = k, having gone
\* through every item.
C9_BatchCounts ==
    (batch.pc = "done" /\ db.errors = 0)
        => /\ batch.results.successful = Len(batch.requests_data) - Malformed(batch.requests_data)
           /\ batch.results.failed = Malformed(batch.requests_data)
           /\ batch.i = Len(batch.requests_data) + 1

\* C11: when the orchestration is cancelled (CancelledError delivered at the
\* awaited model call) generate_insight aborts: that invocation is its last,
\* the fallback generator is not run and no InsightResponse is built.
C11_CancelAborts ==
    \A c \in Calls :
        LET f == frame[c]
            n == Invocations(c)
        IN  \A k \in 1..n :
              generate_calls[c][k].outcome = "cancelled" =>
                /\ n = k
                /\ f.pc = "raised"
                /\ f.exc = "CancelledError"
                /\ f.insight = NoInsight
                /\ ~f.fallback_used
                /\ f.response = << >>

\* cancelled during the second attempt, after a first attempt that failed
C11_Witness ==
    \E c \in Calls :
        /\ Invocations(c) = 2
        /\ generate_calls[c][1].outcome = "raised"
        /\ generate_calls[c][2].outcome = "cancelled"
        /\ frame[c].pc = "raised"

\* how the model calls of c ended, in order
Outcomes(c) ==
    [ k \in 1..Invocations(c) |->
        [ outcome |-> generate_calls[c][k].outcome,
          text    |-> generate_calls[c][k].text,
          error   |-> generate_calls[c][k].error ] ]

IsPrefix(s, t) == Len(s) <= Len(t) /\ \A i \in 1..Len(s) : s[i] = t[i]

\* the control state of generate_insight and what it returns, apart from
\* the anomaly result, the anomaly section of the prompt and the request
Control(c) ==
    LET f == frame[c]
    IN  [ pc |-> f.pc, bound |-> f.bound, features_is_none |-> f.features_is_none,
          features |-> f.features, metric_name |-> f.metric_name,
          prompt_metric |-> f.prompt.metric_name, prompt_features |-> f.prompt.features,
          notes |-> f.prompt.notes, attempt |-> f.attempt, last_error |-> f.last_error,
          llm_output |-> f.llm_output, insight |-> f.insight,
          fallback_used |-> f.fallback_used, exc |-> f.exc,
          returned |-> IF f.response = << >> THEN << >>
                       ELSE << [ features |-> f.response[1].features,
                                 insight |-> f.response[1].insight,
                                 fallback_used |-> f.response[1].fallback_used ] >> ]

\* two metrics requests from which extract_from_metrics and
\* _get_metric_name compute the same: same name, last two values, context
SameFeatureInputs(r1, r2) ==
    /\ ValidMetrics(r1) /\ ValidMetrics(r2)
    /\ r1.data.metric_name = r2.data.metric_name
    /\ Last(r1.data.values) = Last(r2.data.values)
    /\ r1.data.values[Len(r1.data.values) - 1] = r2.data.values[Len(r2.data.values) - 1]
    /\ r1.context = r2.context

\* C12: anomaly detection runs exactly for metrics requests with at least
\* 3 values, and its result reaches only the anomaly section of the prompt:
\* two calls whose requests give the same features and whose model calls
\* ended the same way are at the same attempt, take the same
\* accepted-or-fallback decision and return the same features, insight and
\* fallback_used, whatever their anomaly results.
C12_AnomalyOnlyInPrompt ==
    /\ \A c \in Calls :
          LET f == frame[c]
          IN  /\ f.anomaly_result.present <=>
                    /\ f.request.input_type = "metrics"
                    /\ Len(f.request.data.values) >= 3
                    /\ f.pc \notin { "idle", "extract", "detect" }
              /\ f.pc \in { "loop", "await", "validate", "assemble", "returned" }
                    => f.prompt.anomaly = f.anomaly_result
              /\ \A k \in 1..Invocations(c) :
                    generate_calls[c][k].prompt.anomaly = f.anomaly_result
    /\ \A c, d \in Calls :
          SameFeatureInputs(frame[c].request, frame[d].request) =>
              /\ (frame[c].pc = frame[d].pc /\ Outcomes(c) = Outcomes(d))
                    => Control(c) = Control(d)
              /\ (Finished(c) /\ Finished(d) /\ IsPrefix(Outcomes(c), Outcomes(d)))
                    => Outcomes(c) = Outcomes(d)

\* two returned calls with the same features and the same two model call
\* outcomes, one with an anomaly detected, the other with detection not run
C12_Witness ==
    \E c, d \in Calls :
        /\ SameFeatureInputs(frame[c].request, frame[d].request)
        /\ frame[c].anomaly_result.is_anomaly
        /\ ~frame[d].anomaly_result.present
        /\ Returned(c) /\ Returned(d)
        /\ Invocations(c) = 2
        /\ Outcomes(c) = Outcomes(d)
        /\ ~Response(c).fallback_used

\* str(e) of the exception that ended a failed model call
FailureMessage(a) == IF a.outcome = "raised" THEN a.error ELSE JsonErrorMessage

\* the notes a call running alone has appended to its prompt once its
\* first j attempts have failed: the non-empty messages, in order
OwnNotes(c, j) ==
    LET RECURSIVE NotesTo(_)
        NotesTo(i) ==
            IF i = 0 THEN << >>
            ELSE IF FailureMessage(generate_calls[c][i]) = "" THEN NotesTo(i - 1)
            ELSE Append(NotesTo(i - 1), FailureMessage(generate_calls[c][i]))
    IN  NotesTo(j)

\* the last model call of c returned text that validates as an InsightOutput
LastCallValid(c) ==
    /\ Invocations(c) > 0
    /\ Last(generate_calls[c]).outcome = "returned"
    /\ Last(generate_calls[c]).text.parseable
    /\ Last(generate_calls[c]).text.type = "object"
    /\ InsightOutputValid(Last(generate_calls[c]).text)

\* C13: two generate_insight calls interleaved on one service share no
\* mutable state: each call's attempt counter, last error, prompts (with
\* their failure notes), features, insight and fallback_used are computed
\* from its own request and its own model call outcomes alone.
C13_NoSharedState ==
    \A c \in Calls :
        LET f == frame[c]
            own == generate_calls[c]
            n == Invocations(c)
            values == f.request.data.values
            features == extract_from_metrics(settings, values, f.request.context)
            name == get_metric_name(f.request)
            original == build_insight_prompt(name, features, f.anomaly_result)
        IN  f.pc \notin { "idle", "extract", "detect", "build" } =>
            /\ \A k \in 1..n :
                  own[k].prompt = [ original EXCEPT !.notes = OwnNotes(c, k - 1) ]
            /\ f.pc = "await" => f.attempt = n - 1 /\ f.prompt = own[n].prompt
            /\ f.pc = "loop" => f.attempt = n
            /\ (f.pc = "loop" /\ n > 0) => f.last_error = FailureMessage(own[n])
            /\ Returned(c) =>
                  /\ Response(c).user_id = f.request.user_id
                  /\ Response(c).features = features
                  /\ Response(c).fallback_used <=> ~LastCallValid(c)
                  /\ Response(c).insight =
                        IF LastCallValid(c) THEN ParsedInsight(Last(own).text)
                        ELSE generate_fallback_insight(features, name)

\* both calls are suspended in their second model call, each with the
\* note of its own first failure: one a client error, one unparseable text
C13_Witness ==
    \E c, d \in Calls :
        /\ c # d
        /\ frame[c].pc = "await" /\ frame[d].pc = "await"
        /\ Invocations(c) = 2 /\ Invocations(d) = 2
        /\ generate_calls[c][2].prompt.notes = << "503 Service Unavailable" >>
        /\ generate_calls[d][2].prompt.notes = << JsonErrorMessage >>

\* a helper was called on its own and has returned or raised
Called(fn) == direct.fn = fn /\ direct.pc = "done"

\* C14: for every values list of length at least 2, extract_from_metrics
\* does not raise, and when previous_value is not 0 the returned
\* change_percent has the sign of the returned change_absolute.
C14_PercentSignFollowsChange ==
    (Called("extract_from_metrics") /\ Len(direct.values) >= 2) =>
        /\ direct.raised = ""
        /\ direct.result_features.previous_value # 0 =>
              Sign(direct.result_features.change_percent)
                  = Sign(direct.result_features.change_absolute)

\* the call was made with the default thresholds: no context, or a context
\* whose thresholds are None, on a service with the settings of app/config.py
DefaultThresholds ==
    /\ ~(direct.context.present /\ direct.context.has_thresholds)
    /\ settings = Settings(settings.llm_max_retries)

\* C15: with previous_value = 0, extract_from_metrics returns
\* change_percent 0.0 when current_value = 0 (severity low under the
\* default thresholds), +1000.0 when current_value > 0 and -1000.0 when
\* current_value < 0 (both critical under the default thresholds).
C15_ZeroPreviousPolicy ==
    ( /\ Called("extract_from_metrics")
      /\ Len(direct.values) >= 2
      /\ direct.values[Len(direct.values) - 1] = 0 )
    => LET current_value == Last(direct.values)
           r == direct.result_features
       IN  /\ direct.raised = ""
           /\ current_value = 0 => r.change_percent = 0
           /\ current_value > 0 => r.change_percent = CapPercent * Scale
           /\ current_value < 0 => r.change_percent = -(CapPercent * Scale)
           /\ DefaultThresholds =>
                 r.severity = IF current_value = 0 THEN "low" ELSE "critical"

\* [0, -100] with no context: -1000.0, critical
C15_Witness ==
    /\ Called("extract_from_metrics")
    /\ direct.values = <<0, -100>>
    /\ direct.context = NoContext
    /\ direct.result_features.change_percent = -(CapPercent * Scale)
    /\ direct.result_features.severity = "critical"

\* C16: the severity is the first tier, in the order critical, high,
\* medium, whose threshold |change_percent| reaches (>=), else low; a change
\* equal to a threshold is in that tier: with the defaults [100, 150] is
\* critical, [100, 130] is high and [100, 100] is low.
C16_InclusiveSeverity ==
    (Called("extract_from_metrics") /\ Len(direct.values) >= 2) =>
        LET previous_value == direct.values[Len(direct.values) - 1]
            current_value == Last(direct.values)
            th == ThresholdsInForce(settings, direct.context)
            Reaches(t) ==
                IF previous_value = 0
                THEN (IF current_value = 0 THEN 0 ELSE CapPercent) >= t
                ELSE 100 * Abs(current_value - previous_value) >= t * Abs(previous_value)
            severity == direct.result_features.severity
        IN  /\ severity = IF Reaches(th.critical) THEN "critical"
                          ELSE IF Reaches(th.high) THEN "high"
                          ELSE IF Reaches(th.medium) THEN "medium"
                          ELSE "low"
            /\ DefaultThresholds =>
                  /\ (previous_value = 100 /\ current_value = 150) => severity = "critical"
                  /\ (previous_value = 100 /\ current_value = 130) => severity = "high"
                  /\ (previous_value = 100 /\ current_value = 125) => severity = "high"
                  /\ (previous_value = 100 /\ current_value = 100) => severity = "low"

\* [100, 150] with no context: exactly the critical threshold, critical
C16_Witness ==
    /\ Called("extract_from_metrics")
    /\ direct.values = <<100, 150>>
    /\ direct.context = NoContext
    /\ direct.result_features.change_percent = 50 * Scale
    /\ direct.result_features.severity = "critical"

\* C17: for every FeatureSet and metric name the rule-based generator
\* returns confidence 0.60, three recommended actions and three key
\* findings, one of them the "rule-based thresholds (LLM unavailable)"
\* finding; the insight is fixed by the features (the direction by the sign
\* of change_percent, the severity by the FeatureSet's).
C17_FallbackShape ==
    Called("_generate_fallback_insight") =>
        LET i == direct.result_insight
        IN  /\ direct.raised = ""
            /\ i.confidence = FallbackConfidence
            /\ i.recommended_actions = 3
            /\ i.key_findings = 3
            /\ i.rule_based_note
            /\ i.severity = direct.features.severity
            /\ i.direction = IF direct.features.change_percent > 0
                             THEN "increase" ELSE "decrease"

\* the fallback built for a critical fall of 50 %
C17_Witness ==
    /\ Called("_generate_fallback_insight")
    /\ direct.features = FeatureSet(100, 50, -50, -5000, "critical")
    /\ direct.result_insight.direction = "decrease"
    /\ direct.result_insight.rule_based_note

\* z_score > 3.0
ScoreAboveThree(z) == z.sign > 0 /\ z.sq_num > 9 * z.sq_den

\* C18: for at least 3 values with non-zero standard deviation,
\* z_score_detection returns is_anomaly = (|last - mean| > 3 * std); for
\* [100,105,98,102,500] it returns is_anomaly = true with z_score > 3.0 and
\* for [100,105,98,102,110] is_anomaly = false.
C18_ZScoreFlagsOutlier ==
    Called("z_score_detection") =>
        LET values == direct.values
            n == Len(values)
            dev == n * Last(values) - Sum(values)
            D == SquaredDeviations(values)
            r == direct.result_anomaly
        IN  /\ (n >= 3 /\ D # 0) => (r.is_anomaly <=> n * dev * dev > 9 * D)
            /\ values = TestOutlier => (r.is_anomaly /\ ScoreAboveThree(r.z_score))
            /\ values = TestNormal => ~r.is_anomaly

\* the sequence is below the detector's minimum length, or has no variance
Degenerate(fn, values, window) ==
    \/ Len(values) < (CASE fn = "z_score_detection" -> 3
                        [] fn = "rolling_std_detection" -> window + 1
                        [] fn = "iqr_detection" -> 4)
    \/ \A i \in 1..Len(values) : values[i] = values[1]

Detectors == { "z_score_detection", "rolling_std_detection", "iqr_detection" }

\* C19: each detector, given a sequence shorter than its minimum length
\* (3, window + 1, 4) or without variance, does not raise and returns
\* is_anomaly = false, z_score 0 and an "error" or "note" entry in details.
C19_DegenerateInputExplained ==
    \A fn \in Detectors :
        (Called(fn) /\ Degenerate(fn, direct.values, direct.window)) =>
            /\ direct.raised = ""
            /\ ~direct.result_anomaly.is_anomaly
            /\ direct.result_anomaly.z_score = ZeroScore
            /\ direct.result_anomaly.diagnostic \in { "error", "note" }

\* C20: the prompt of attempt k (k >= 2) is the original prompt followed by
\* exactly k - 1 failure notes, the j-th naming the failure of attempt j,
\* whatever that failure's kind or message; the first attempt gets the
\* original prompt.
C20_NotesAccumulate ==
    \A c \in Calls :
        LET calls == generate_calls[c]
        IN  \A k \in 1..Invocations(c) :
              /\ calls[k].prompt.metric_name = calls[1].prompt.metric_name
              /\ calls[k].prompt.features = calls[1].prompt.features
              /\ calls[k].prompt.anomaly = calls[1].prompt.anomaly
              /\ calls[k].prompt.notes =
                    [ j \in 1..(k - 1) |-> FailureMessage(calls[j]) ]

\* the call failed in Step 1, before a FeatureSet was bound to features
FailedBeforeFeatures(c) ==
    /\ frame[c].pc \in { "assemble", "returned", "raised" }
    /\ Invocations(c) = 0
    /\ frame[c].exc \in { "ValueError", "AttributeError" }

\* C21: a failure before any FeatureSet was computed ends in a response
\* with the zeroed FeatureSet, the fallback insight built from it and
\* fallback_used = true.
C21_ZeroedFeaturesOnEarlyFailure ==
    \A c \in Calls : FailedBeforeFeatures(c) =>
        LET f == frame[c]
        IN  /\ f.pc # "raised"
            /\ f.features = ZeroFeatures
            /\ f.insight = generate_fallback_insight(ZeroFeatures, f.metric_name)
            /\ f.fallback_used
            /\ Returned(c) =>
                  /\ Response(c).features = ZeroFeatures
                  /\ Response(c).insight.origin = "fallback"
                  /\ Response(c).fallback_used

\* C22: provided every model call returns or fails, a generate_insight call
\* that was started eventually assembles a response and returns it.
C22_EventuallyReturns ==
    \A c \in MainCalls : (frame[c].pc = "extract") ~> (frame[c].pc = "returned")

\* C23: every model invocation of one generate_insight call, the first attempt
\* and every retry, is given the response schema of get_response_schema and
\* the same temperature; the attempts differ in the prompt only.
C23_SameSchemaAndTemperature ==
    \A c \in MainCalls : \A k \in 1..Invocations(c) :
        LET a == generate_calls[c][k]
        IN  /\ a.response_schema = get_response_schema
            /\ a.temperature = Temperature
            /\ \A j \in 1..Invocations(c) :
                  /\ generate_calls[c][j].response_schema = a.response_schema
                  /\ generate_calls[c][j].temperature = a.temperature

\* a call made MaxRetries invocations and the last prompt differs from the first
C23_Witness ==
    /\ Invocations("a") = MaxRetries
    /\ generate_calls["a"][1].prompt # generate_calls["a"][MaxRetries].prompt
    /\ Finished("a")

\* C24: a metrics request with fewer than 2 values fails in feature extraction
\* and the model client's generate is invoked zero times in that call.
C24_InsufficientDataNotRetried ==
    \A c \in MainCalls :
        LET r == frame[c].request
        IN  (frame[c].pc # "idle" /\ r.input_type = "metrics" /\ Len(r.data.values) < 2)
                => /\ Invocations(c) = 0
                   /\ frame[c].pc # "extract" => frame[c].exc = "ValueError"

\* such a call has ended
C24_Witness ==
    /\ Finished("a")
    /\ frame["a"].request.input_type = "metrics"
    /\ Len(frame["a"].request.data.values) < 2
    /\ frame["a"].exc = "ValueError"
    /\ Invocations("a") = 0

\* the call's last two values
DirectPercent ==
    change_percent(direct.values[Len(direct.values) - 1], Last(direct.values))

\* C25: caller thresholds override the defaults tier by tier: a tier the
\* caller supplies uses the caller's value, a tier not supplied keeps the
\* configured settings.severity_threshold_* value, and with no caller
\* thresholds the three configured values apply.
C25_PerTierOverride ==
    (Called("extract_from_metrics") /\ Len(direct.values) >= 2) =>
        LET supplied == IF direct.context.present /\ direct.context.has_thresholds
                        THEN direct.context.thresholds
                        ELSE Thresholds({}, 0, 0, 0)
            expected ==
                [ critical |-> ThresholdGet(supplied, "critical",
                                            settings.severity_threshold_critical),
                  high     |-> ThresholdGet(supplied, "high",
                                            settings.severity_threshold_high),
                  medium   |-> ThresholdGet(supplied, "medium",
                                            settings.severity_threshold_medium) ]
        IN  direct.result_features.severity =
                Severity(DirectPercent.num, DirectPercent.den, expected)

\* the model path of the call failed: no invocation, or the last one did
\* not return text that validates as an InsightOutput
ModelPathFailed(c) ==
    \/ Invocations(c) = 0
    \/ LET a == Last(generate_calls[c])
       IN  ~( /\ a.outcome = "returned"
              /\ a.text.parseable
              /\ a.text.type = "object"
              /\ InsightOutputValid(a.text) )

\* C26: when the features were extracted and the model path then fails
\* (every attempt fails, or the accepted text fails validation), the
\* returned response carries the extracted FeatureSet, the request's user_id
\* and tenant_id, and a fallback insight whose severity is the FeatureSet's.
C26_FallbackKeepsFeatures ==
    \A c \in MainCalls :
        LET r == frame[c].request
        IN  (Returned(c) /\ ValidMetrics(r) /\ ModelPathFailed(c)) =>
                /\ Response(c).features =
                      extract_from_metrics(settings, r.data.values, r.context)
                /\ Response(c).user_id = r.user_id
                /\ Response(c).tenant_id = r.tenant_id
                /\ Response(c).insight.origin = "fallback"
                /\ Response(c).insight.severity = Response(c).features.severity

\* a fallback response after every attempt failed, with features that are
\* not the zeroed ones
C26_Witness ==
    /\ Returned("a")
    /\ ValidMetrics(frame["a"].request)
    /\ Invocations("a") = MaxRetries
    /\ \A k \in 1..MaxRetries : AttemptFailedAt("a", k)
    /\ Response("a").features # ZeroFeatures
    /\ Response("a").features.severity # "low"
    /\ Response("a").insight.severity = Response("a").features.severity

\* low < medium < high < critical
Rank(severity) ==
    CASE severity = "low" -> 0
      [] severity = "medium" -> 1
      [] severity = "high" -> 2
      [] severity = "critical" -> 3

\* |a.num / a.den| >= |b.num / b.den|
AbsPercentAtLeast(a, b) == Abs(a.num) * Abs(b.den) >= Abs(b.num) * Abs(a.den)

\* C27: under any thresholds, ascending or not, the severity returned by
\* extract_from_metrics is monotone in |change_percent|: an input whose
\* |change_percent| is at least that of another input has a severity at
\* least the other's, under the same settings and context.
C27_SeverityMonotone ==
    (Called("extract_from_metrics") /\ Len(direct.values) >= 2) =>
        \A previous_value, current_value \in FeatureValues :
            LET other == extract_from_metrics(
                             settings, << previous_value, current_value >>, direct.context)
            IN  AbsPercentAtLeast(DirectPercent,
                                  change_percent(previous_value, current_value))
                    => Rank(direct.result_features.severity) >= Rank(other.severity)

\* a change of 30 % under thresholds that are not ascending (critical 10,
\* high 50, medium 25) is critical, as the smaller change of 25 % is
C27_Witness ==
    /\ Called("extract_from_metrics")
    /\ direct.values = <<100, 130>>
    /\ direct.context.present /\ direct.context.has_thresholds
    /\ direct.context.thresholds.critical < direct.context.thresholds.medium
    /\ direct.result_features.severity = "critical"
    /\ extract_from_metrics(settings, <<100, 125>>, direct.context).severity = "critical"

\* C28: in every FeatureSet returned by extract_from_metrics the severity is
\* the classification of the returned, two-decimal change_percent against
\* the thresholds in force: |change_percent| >= a tier's threshold never
\* comes with a severity below that tier.
C28_SeverityOfReturnedPercent ==
    (Called("extract_from_metrics") /\ Len(direct.values) >= 2) =>
        LET r  == direct.result_features
            th == ThresholdsInForce(settings, direct.context)
        IN  /\ r.severity = Severity(r.change_percent, Scale, th)
            /\ \A tier \in { "critical", "high", "medium" } :
                  Abs(r.change_percent) >= th[tier] * Scale
                      => Rank(r.severity) >= Rank(tier)

\* C29: in batch_generate_insights, after each processed item successful +
\* failed is the number of items processed so far and len(insight_ids) =
\* successful; at the end successful + failed = total = N; an item is
\* counted as successful only after its orchestration returned and its
\* result was persisted.
C29_BatchBookkeeping ==
    batch.pc # "idle" =>
        LET res == batch.results
        IN  /\ res.successful + res.failed = batch.i - 1
            /\ Len(res.insight_ids) = res.successful
            /\ res.total = Len(batch.requests_data)
            /\ batch.pc = "done" => res.successful + res.failed = res.total
            \* every id counted is the id of a response that was returned
            \* and is a row of the database
            /\ res.insight_ids = db.rows
            /\ \A k \in 1..Len(res.insight_ids) : res.insight_ids[k] \in 1..uuids

\* a batch of MaxBatch items ended with one item saved and one failed
C29_Witness ==
    /\ batch.pc = "done"
    /\ Len(batch.requests_data) = MaxBatch
    /\ batch.results.successful = 1
    /\ batch.results.failed = MaxBatch - 1
    /\ Len(db.rows) = 1

\* C30: no detector reports an anomaly together with a score of 0: in every
\* result of z_score_detection, rolling_std_detection and iqr_detection,
\* is_anomaly = true implies z_score # 0.
C30_AnomalyHasScore ==
    \A fn \in Detectors :
        (Called(fn) /\ direct.raised = "" /\ direct.result_anomaly.is_anomaly)
            => direct.result_anomaly.z_score # ZeroScore

====
